---------------------------- MODULE Spec2Model ----------------------------
(***************************************************************************)
(* State-machine model of src/main.py: the "Linear Transformations Demo".  *)
(*                                                                         *)
(* Numbers.  The program computes with Python floats.  The model computes  *)
(* with exact fixed-point numbers: a scalar x of the program (scale_factor,*)
(* angle, shear_k, tx, ty, dt, a matrix entry) is the integer x * Den.     *)
(* Products are never rounded, so a product of n scalars is carried in     *)
(* units of 1/Den^n: a point after scale() is in 1/Den, after shear() in   *)
(* 1/Den^2, after rotate() in 1/Den^3, and the entries of R*Sh*S are in    *)
(* 1/Den^3.  Floating-point rounding is therefore not part of the model.   *)
(***************************************************************************)
EXTENDS Integers, Sequences, FiniteSets

\* ------------------------------------------------------------------------
\* Units and bounds
\* ------------------------------------------------------------------------

\* One unit of the fixed-point representation is 1/Den (hundredths).
Den == 10 * 10
Den2 == Den * Den
Den3 == Den * Den * Den

\* The time quantum of the model: dt is a whole number of half seconds.
Quantum == Den \div 2

\* dt = clock.tick(60)/1000 ranges over 0 .. MaxDt quanta.
MaxDt == 1
\* At most MaxHeld keys are held in one frame.
MaxHeld == 2
\* angle, shear_k, tx and ty together are at most MaxDist one-quantum steps
\* away from 0.
MaxDist == 2
\* scale_factor is at most 1.0 plus MaxUp one-quantum steps.
MaxUp == 0

Abs(x) == IF x < 0 THEN -x ELSE x
Min(a, b) == IF a < b THEN a ELSE b

\* Python's max(a, b)
max(a, b) == IF a >= b THEN a ELSE b

\* ------------------------------------------------------------------------
\* Program constants (main.py)
\* ------------------------------------------------------------------------

\* sprite = [[-50,-50],[50,-50],[50,50],[-50,50]]   (plain units)
HALF_SIDE == 50
sprite == << <<-HALF_SIDE, -HALF_SIDE>>, <<HALF_SIDE, -HALF_SIDE>>,
             <<HALF_SIDE, HALF_SIDE>>, <<-HALF_SIDE, HALF_SIDE>> >>

\* angle -= 2*dt, angle += 2*dt
ROTATE_RATE == 2
\* speed = 200
speed == 200
\* max(0.2, ...): 0.2 in units of 1/Den
SCALE_MIN == Den \div 5

Keys == {"K_LEFT", "K_RIGHT", "K_UP", "K_DOWN", "K_q", "K_e",
         "K_w", "K_s", "K_a", "K_d", "K_r", "K_ESCAPE"}

\* What pygame.key.get_pressed() can return in the model.
KeySets == {k \in SUBSET Keys : Cardinality(k) <= MaxHeld}

\* The event types the loop looks at.
EventTypes == {"QUIT", "MOUSEBUTTONDOWN"}

\* What clock.tick(60)/1000 can return in the model.
Dts == {n * Quantum : n \in 0..MaxDt}

\* ------------------------------------------------------------------------
\* Matrix & transform helpers
\* ------------------------------------------------------------------------

\* math.cos and math.sin, as a table of the values rounded to 1/Den, for the
\* angles the model reaches (whole radians).
cos(theta) ==
    CASE Abs(theta) = 0 -> Den
      [] Abs(theta) = 1 * Den -> 54
      [] Abs(theta) = 2 * Den -> -42
      [] Abs(theta) = 3 * Den -> -99
      [] Abs(theta) = 4 * Den -> -65

sin(theta) ==
    LET s == CASE Abs(theta) = 0 -> 0
               [] Abs(theta) = 1 * Den -> 84
               [] Abs(theta) = 2 * Den -> 91
               [] Abs(theta) = 3 * Den -> 14
               [] Abs(theta) = 4 * Den -> -76
    IN IF theta < 0 THEN -s ELSE s

\* def apply_matrix(point, matrix)
apply_matrix(point, matrix) ==
    LET x == point[1]
        y == point[2]
    IN << matrix[1][1] * x + matrix[1][2] * y,
          matrix[2][1] * x + matrix[2][2] * y >>

\* def rotate(points, theta): returns (points, R)
rotate(points, theta) ==
    LET Rm == << <<cos(theta), -sin(theta)>>,
                 <<sin(theta), cos(theta)>> >>
    IN << [i \in DOMAIN points |-> apply_matrix(points[i], Rm)], Rm >>

\* def scale(points, factor): returns (points, S)
scale(points, factor) ==
    LET Sm == << <<factor, 0>>,
                 <<0, factor>> >>
    IN << [i \in DOMAIN points |-> apply_matrix(points[i], Sm)], Sm >>

\* def shear(points, k): returns (points, Sh); the literal 1 is Den units
shear(points, k) ==
    LET Shm == << <<Den, k>>,
                  <<0, Den>> >>
    IN << [i \in DOMAIN points |-> apply_matrix(points[i], Shm)], Shm >>

\* def translate(points, tx, ty).  The points it is given are in 1/Den^3 and
\* the offsets in 1/Den: the offsets are brought to the points' unit.
translate(points, dx, dy) ==
    [i \in DOMAIN points |-> << points[i][1] + dx * Den2,
                                points[i][2] + dy * Den2 >>]

\* A variant of multiply_matrices that multiplies in the other order (B*A).
multiply_matrices_swapped(A, B) ==
    << << B[1][1] * A[1][1] + B[1][2] * A[2][1],
          B[1][1] * A[1][2] + B[1][2] * A[2][2] >>,
       << B[2][1] * A[1][1] + B[2][2] * A[2][1],
          B[2][1] * A[1][2] + B[2][2] * A[2][2] >> >>

\* def multiply_matrices(A, B)
multiply_matrices(A, B) ==
    << << A[1][1] * B[1][1] + A[1][2] * B[2][1],
          A[1][1] * B[1][2] + A[1][2] * B[2][2] >>,
       << A[2][1] * B[1][1] + A[2][2] * B[2][1],
          A[2][1] * B[1][2] + A[2][2] * B[2][2] >> >>

\* ------------------------------------------------------------------------
\* Transformation state
\* ------------------------------------------------------------------------

VARIABLES
    scale_factor,   \* scaling multiplier                       (1/Den)
    angle,          \* rotation angle in radians                (1/Den)
    shear_k,        \* shear amount                             (1/Den)
    tx, ty,         \* translation                              (1/Den)
    running,        \* the loop flag
    pc,             \* position in the main loop: "tick" (line 199),
                    \* "events" (207-211), "keys" (213-257, then the loop
                    \* test of line 198), "done" (259)
    dt,             \* this tick's delta time                   (1/Den s)
    keys,           \* this tick's pygame.key.get_pressed(), {} until sampled
    S, Sh, R, M,    \* this tick's matrices, <<>> before the first frame
    transformed,    \* this tick's transformed polygon: the frame hands
                    \* S, Sh, R, M and transformed to the draw calls
    clicked,        \* history: reset() ran from the button in this tick
    heldKeys, held  \* history: the single key held alone in every frame since
                    \* the identity state with no button reset, and for how
                    \* long (held = -1: no such run of frames)

state == <<scale_factor, angle, shear_k, tx, ty>>
vars == <<scale_factor, angle, shear_k, tx, ty, running, pc, dt, keys,
          S, Sh, R, M, transformed, clicked, heldKeys, held>>

\* The five globals as one value.
cur == [scale_factor |-> scale_factor, angle |-> angle, shear_k |-> shear_k,
        tx |-> tx, ty |-> ty]

\* scale_factor = 1.0, angle = 0, shear_k = 0.0, tx, ty = 0, 0
IdentityState == [scale_factor |-> Den, angle |-> 0, shear_k |-> 0,
                  tx |-> 0, ty |-> 0]

\* A variant of reset that forgets shear_k.
reset_keeps_shear(st) ==
    [st EXCEPT !.scale_factor = Den, !.angle = 0, !.tx = 0, !.ty = 0]

\* def reset()
reset(st) ==
    [st EXCEPT !.scale_factor = Den, !.angle = 0, !.shear_k = 0,
               !.tx = 0, !.ty = 0]

\* Button.click(pos): if self.rect.collidepoint(pos): self.action()
click(st, on_button) == IF on_button THEN reset(st) ELSE st

\* ------------------------------------------------------------------------
\* Controls (lines 217-230)
\* ------------------------------------------------------------------------

\* if keys[K_LEFT]: angle -= 2*dt
rotate_left(a, d) == a - ROTATE_RATE * d
\* if keys[K_RIGHT]: angle += 2*dt
rotate_right(a, d) == a + ROTATE_RATE * d
\* if keys[K_UP]: scale_factor += 0.5*dt
scale_up(s, d) == s + d \div 2

\* A variant of the K_DOWN line without the floor.
scale_down_unclamped(s, d) == s - d \div 2
\* A variant of the K_DOWN line that refuses a step below the floor.
scale_down_refuse(s, d) == IF s - d \div 2 < SCALE_MIN THEN s ELSE s - d \div 2

\* if keys[K_DOWN]: scale_factor = max(0.2, scale_factor - 0.5*dt)
scale_down(s, d) == max(SCALE_MIN, s - d \div 2)
\* if keys[K_q]: shear_k -= dt
shear_dec(k, d) == k - d
\* if keys[K_e]: shear_k += dt
shear_inc(k, d) == k + d
\* A variant of the K_w and K_a lines with the speed forgotten.
move_neg_no_speed(v, d) == v - d

\* if keys[K_w]: ty -= speed*dt        if keys[K_a]: tx -= speed*dt
move_neg(v, d) == v - speed * d
\* if keys[K_s]: ty += speed*dt        if keys[K_d]: tx += speed*dt
move_pos(v, d) == v + speed * d

\* The lines before "if keys[K_r]: reset()", in the order of the source.
integrate(st, k, d) ==
    LET s1 == IF "K_LEFT" \in k THEN [st EXCEPT !.angle = rotate_left(@, d)] ELSE st
        s2 == IF "K_RIGHT" \in k THEN [s1 EXCEPT !.angle = rotate_right(@, d)] ELSE s1
        s3 == IF "K_UP" \in k THEN [s2 EXCEPT !.scale_factor = scale_up(@, d)] ELSE s2
        s4 == IF "K_DOWN" \in k THEN [s3 EXCEPT !.scale_factor = scale_down(@, d)] ELSE s3
        s5 == IF "K_q" \in k THEN [s4 EXCEPT !.shear_k = shear_dec(@, d)] ELSE s4
        s6 == IF "K_e" \in k THEN [s5 EXCEPT !.shear_k = shear_inc(@, d)] ELSE s5
        s7 == IF "K_w" \in k THEN [s6 EXCEPT !.ty = move_neg(@, d)] ELSE s6
        s8 == IF "K_s" \in k THEN [s7 EXCEPT !.ty = move_pos(@, d)] ELSE s7
        s9 == IF "K_a" \in k THEN [s8 EXCEPT !.tx = move_neg(@, d)] ELSE s8
        s10 == IF "K_d" \in k THEN [s9 EXCEPT !.tx = move_pos(@, d)] ELSE s9
    IN s10

\* A variant of the controls with the K_DOWN line before the K_UP line.
controls_down_first(st, k, d) ==
    LET s1 == IF "K_LEFT" \in k THEN [st EXCEPT !.angle = rotate_left(@, d)] ELSE st
        s2 == IF "K_RIGHT" \in k THEN [s1 EXCEPT !.angle = rotate_right(@, d)] ELSE s1
        s3 == IF "K_DOWN" \in k THEN [s2 EXCEPT !.scale_factor = scale_down(@, d)] ELSE s2
        s4 == IF "K_UP" \in k THEN [s3 EXCEPT !.scale_factor = scale_up(@, d)] ELSE s3
        s5 == IF "K_q" \in k THEN [s4 EXCEPT !.shear_k = shear_dec(@, d)] ELSE s4
        s6 == IF "K_e" \in k THEN [s5 EXCEPT !.shear_k = shear_inc(@, d)] ELSE s5
        s7 == IF "K_w" \in k THEN [s6 EXCEPT !.ty = move_neg(@, d)] ELSE s6
        s8 == IF "K_s" \in k THEN [s7 EXCEPT !.ty = move_pos(@, d)] ELSE s7
        s9 == IF "K_a" \in k THEN [s8 EXCEPT !.tx = move_neg(@, d)] ELSE s8
        s10 == IF "K_d" \in k THEN [s9 EXCEPT !.tx = move_pos(@, d)] ELSE s9
    IN IF "K_r" \in k THEN reset(s10) ELSE s10

\* A variant of the controls with the K_r line first.
controls_reset_first(st, k, d) ==
    integrate(IF "K_r" \in k THEN reset(st) ELSE st, k, d)

\* The controls: lines 218-229, then "if keys[K_r]: reset()".
controls(st, k, d) ==
    LET s10 == integrate(st, k, d)
    IN IF "K_r" \in k THEN reset(s10) ELSE s10

\* ------------------------------------------------------------------------
\* Transformation pipeline (lines 232-241)
\* ------------------------------------------------------------------------

\* scale -> shear -> rotate -> translate, then the combined matrix R * Sh * S
pipeline(st) ==
    LET sc == scale(sprite, st.scale_factor)
        sh == shear(sc[1], st.shear_k)
        ro == rotate(sh[1], st.angle)
        RS == multiply_matrices(ro[2], sh[2])
    IN [transformed |-> translate(ro[1], st.tx, st.ty),
        S |-> sc[2], Sh |-> sh[2], R |-> ro[2],
        M |-> multiply_matrices(RS, sc[2])]

\* A variant of the frame that runs the pipeline on the state as it was before
\* the controls.
frame_lagging(st, k, d) ==
    [state |-> controls(st, k, d), out |-> pipeline(st)]

\* Lines 217-241 of one frame: the controls, then the pipeline on their result.
frame(st, k, d) ==
    LET after == controls(st, k, d)
    IN [state |-> after, out |-> pipeline(after)]

\* A variant of the loop condition that ignores the flag.
loop_forever(r) == TRUE

\* while running:
loop_condition(r) == r

\* ------------------------------------------------------------------------
\* Bounds of the exploration
\* ------------------------------------------------------------------------

AngleStep == ROTATE_RATE * Quantum
ShearStep == Quantum
MoveStep == speed * Quantum
ScaleStep == Quantum \div 2

Dist(st) == Abs(st.angle) \div AngleStep + Abs(st.shear_k) \div ShearStep
            + Abs(st.tx) \div MoveStep + Abs(st.ty) \div MoveStep

InBounds(st) ==
    /\ st.scale_factor <= Den + MaxUp * ScaleStep
    /\ Dist(st) <= MaxDist

\* The longest held time the history variable counts: 10 s.
HeldCap == 10 * Den

\* ------------------------------------------------------------------------
\* The state machine
\* ------------------------------------------------------------------------

Init ==
    /\ scale_factor = Den
    /\ angle = 0
    /\ shear_k = 0
    /\ tx = 0
    /\ ty = 0
    /\ running = TRUE
    /\ pc = "tick"
    /\ dt = 0
    /\ keys = {}
    /\ S = <<>>
    /\ Sh = <<>>
    /\ R = <<>>
    /\ M = <<>>
    /\ transformed = <<>>
    /\ clicked = FALSE
    /\ heldKeys = {}
    /\ held = -1

\* dt = clock.tick(60)/1000, first in the body of the loop
ClockTick ==
    /\ pc = "tick"
    /\ dt' \in Dts
    /\ keys' = {}
    /\ clicked' = FALSE
    /\ pc' = "events"
    /\ UNCHANGED <<state, running, S, Sh, R, M, transformed, heldKeys, held>>

\* for event in pygame.event.get(): QUIT clears running, MOUSEBUTTONDOWN calls
\* reset_button.click(pygame.mouse.get_pos())
HandleEvents ==
    /\ pc = "events"
    /\ \E events \in SUBSET EventTypes, on_button \in BOOLEAN :
         LET st == IF "MOUSEBUTTONDOWN" \in events THEN click(cur, on_button) ELSE cur
         IN /\ running' = IF "QUIT" \in events THEN FALSE ELSE running
            /\ scale_factor' = st.scale_factor
            /\ angle' = st.angle
            /\ shear_k' = st.shear_k
            /\ tx' = st.tx
            /\ ty' = st.ty
            /\ clicked' = ("MOUSEBUTTONDOWN" \in events /\ on_button)
            /\ held' = IF clicked' THEN -1 ELSE held
            /\ heldKeys' = IF clicked' THEN {} ELSE heldKeys
    /\ pc' = "keys"
    /\ UNCHANGED <<dt, keys, S, Sh, R, M, transformed>>

\* keys = pygame.key.get_pressed() ... pygame.display.update(), then the loop
\* test: "while running" starts the next tick or falls through to pygame.quit()
FrameOf(keysets) ==
    /\ pc = "keys"
    /\ \E k \in keysets :
         /\ InBounds(controls(cur, k, dt))
         /\ \E f \in {frame(cur, k, dt)} :
              /\ scale_factor' = f.state.scale_factor
              /\ angle' = f.state.angle
              /\ shear_k' = f.state.shear_k
              /\ tx' = f.state.tx
              /\ ty' = f.state.ty
              /\ S' = f.out.S
              /\ Sh' = f.out.Sh
              /\ R' = f.out.R
              /\ M' = f.out.M
              /\ transformed' = f.out.transformed
         /\ keys' = k
         /\ running' = IF "K_ESCAPE" \in k THEN FALSE ELSE running
         /\ pc' = IF loop_condition(running') THEN "tick" ELSE "done"
         /\ \E h \in {IF Cardinality(k) # 1 THEN -1
                      ELSE IF heldKeys = k /\ held >= 0
                          THEN Min(held + dt, HeldCap)
                      ELSE IF cur = IdentityState THEN dt
                      ELSE -1} :
              /\ held' = h
              /\ heldKeys' = IF h >= 0 THEN k ELSE {}
    /\ UNCHANGED <<dt, clicked>>

Frame == FrameOf(KeySets)

Next == ClockTick \/ HandleEvents \/ Frame

Spec == Init /\ [][Next]_vars

\* The same loop with the keyboard restricted to K_RIGHT, K_r and K_ESCAPE.
LiveKeySets == {k \in KeySets : k \subseteq {"K_RIGHT", "K_r", "K_ESCAPE"}}

FrameLive == FrameOf(LiveKeySets)

LiveNext == ClockTick \/ HandleEvents \/ FrameLive

\* The interpreter keeps executing the loop: no step that can be taken is put
\* off forever.
LiveSpec == Init /\ [][LiveNext]_vars /\ WF_vars(LiveNext)

\* A frame of the current tick has completed.
AfterFrame == pc \in {"tick", "done"} /\ S # <<>>

\* ------------------------------------------------------------------------
\* Values the claims speak of
\* ------------------------------------------------------------------------

\* The 2x2 identity with its entries in units of 1/u.
IdentityMatrix(u) == << <<u, 0>>, <<0, u>> >>

\* The sprite's points in the unit of the transformed polygon.
SpriteInDen3 == [i \in DOMAIN sprite |-> <<sprite[i][1] * Den3, sprite[i][2] * Den3>>]

\* A matrix with every entry multiplied by c.
Times(c, A) == << <<c * A[1][1], c * A[1][2]>>, <<c * A[2][1], c * A[2][2]>> >>

\* What the pipeline of the last frame produced.
Output == [transformed |-> transformed, S |-> S, Sh |-> Sh, R |-> R, M |-> M]

\* The ten keys that integrate a parameter.
DirectionalKeys == Keys \ {"K_r", "K_ESCAPE"}

\* ------------------------------------------------------------------------
\* C1
\* ------------------------------------------------------------------------

\* C1: after every frame, for every index i of the sprite, transformed[i] is
\* apply_matrix(sprite[i], M) + (tx, ty) with
\* M = multiply_matrices(multiply_matrices(R, Sh), S), and transformed has the
\* sprite's 4 points in the sprite's order.
C1_CompositionEquivalence ==
    AfterFrame =>
        /\ M = multiply_matrices(multiply_matrices(R, Sh), S)
        /\ DOMAIN transformed = DOMAIN sprite
        /\ Len(transformed) = 4
        /\ \A i \in DOMAIN sprite :
             LET p == apply_matrix(sprite[i], M)
             IN transformed[i] = <<p[1] + tx * Den2, p[2] + ty * Den2>>

\* A frame on a state that is scaled, sheared and rotated at once.
C1_Witness ==
    /\ AfterFrame
    /\ scale_factor # Den
    /\ shear_k # 0
    /\ angle # 0

\* ------------------------------------------------------------------------
\* C2
\* ------------------------------------------------------------------------

\* C2: scale_factor is at least 0.2 in every reachable state, and K_DOWN held
\* alone for a total of 10 s from the identity state leaves it exactly 0.2.
C2_ScaleFloor ==
    /\ scale_factor >= Den \div 5
    /\ (heldKeys = {"K_DOWN"} /\ held >= 10 * Den) => scale_factor = Den \div 5

\* K_DOWN has been held alone for 10 s from identity.
C2_Witness ==
    /\ AfterFrame
    /\ heldKeys = {"K_DOWN"}
    /\ held = 10 * Den
    /\ scale_factor = Den \div 5

\* ------------------------------------------------------------------------
\* C3
\* ------------------------------------------------------------------------

\* C3: after a frame in which K_r was held, whatever else was held and whatever
\* dt was, the state the pipeline ran on is the identity state.
C3_ResetKeyWins ==
    (AfterFrame /\ "K_r" \in keys) =>
        /\ cur = IdentityState
        /\ Output = pipeline(IdentityState)

\* K_r held together with K_RIGHT for half a second.
C3_Witness ==
    /\ AfterFrame
    /\ keys = {"K_r", "K_RIGHT"}
    /\ dt > 0
    /\ cur = IdentityState

\* ------------------------------------------------------------------------
\* C4
\* ------------------------------------------------------------------------

\* C4: after a frame of a tick whose event handling ran reset() from the
\* button, the state the pipeline ran on is the identity state, whatever keys
\* were held in that tick.
C4_ButtonResetWins ==
    (AfterFrame /\ clicked) =>
        /\ cur = IdentityState
        /\ Output = pipeline(IdentityState)

\* ------------------------------------------------------------------------
\* C5
\* ------------------------------------------------------------------------

\* C5: from the state any sequence of ticks has led to, reset() yields exactly
\* the identity state, a second reset() changes nothing, and the pipeline on
\* that state gives S, Sh, R and M equal to the identity matrix and a
\* transformed polygon equal to the sprite; the button's reset leaves the
\* program in that state.
C5_ResetIdentity ==
    /\ pc = "events" =>
          /\ reset(cur) = IdentityState
          /\ reset(reset(cur)) = reset(cur)
          /\ pipeline(reset(cur)) = [transformed |-> SpriteInDen3,
                                     S |-> IdentityMatrix(Den),
                                     Sh |-> IdentityMatrix(Den),
                                     R |-> IdentityMatrix(Den),
                                     M |-> IdentityMatrix(Den3)]
    /\ (pc = "keys" /\ clicked) => cur = IdentityState

\* The button's reset has just run on a state that was scaled and sheared (the
\* matrices of the frame before still show it).
C5_Witness ==
    /\ pc = "keys"
    /\ clicked
    /\ cur = IdentityState
    /\ S # <<>>
    /\ S # IdentityMatrix(Den)
    /\ Sh # IdentityMatrix(Den)

\* ------------------------------------------------------------------------
\* C6
\* ------------------------------------------------------------------------

\* C6: from the state any tick starts in, for every single directional key and
\* every dt = T of the model, two frames with dt = T give the state one frame
\* with dt = 2T gives; and a key held alone for several frames from the
\* identity state gives the state one frame of the total time gives.
C6_IntegrationLinearity ==
    /\ pc = "events" =>
          \A key \in DirectionalKeys : \A T \in Dts :
             controls(controls(cur, {key}, T), {key}, T) = controls(cur, {key}, 2 * T)
    /\ (AfterFrame /\ held >= 0 /\ held < HeldCap /\ heldKeys \subseteq DirectionalKeys)
         => cur = controls(IdentityState, heldKeys, held)

\* K_DOWN held alone from identity for four frames of half a second: the floor
\* was applied in the last of them.
C6_Witness ==
    /\ AfterFrame
    /\ heldKeys = {"K_DOWN"}
    /\ held = 4 * Quantum
    /\ dt = Quantum
    /\ scale_factor = Den \div 5

\* ------------------------------------------------------------------------
\* C7
\* ------------------------------------------------------------------------

\* After K_RIGHT held alone for 0.5 s from identity: angle = 1.0, the rest of
\* the state identity, S = Sh = identity, R the rotation by 1 rad and M = R.
C7_Scenario ==
    (AfterFrame /\ heldKeys = {"K_RIGHT"} /\ held = Den \div 2) =>
        /\ cur = [IdentityState EXCEPT !.angle = Den]
        /\ S = IdentityMatrix(Den)
        /\ Sh = IdentityMatrix(Den)
        /\ R = << <<cos(Den), -sin(Den)>>, <<sin(Den), cos(Den)>> >>
        /\ M = Times(Den2, R)

\* C7: a frame in which only the keys of one parameter are held changes only
\* that parameter (K_LEFT/K_RIGHT the angle by 2*dt, K_UP/K_DOWN the scale,
\* K_q/K_e the shear by dt, K_w/K_s ty and K_a/K_d tx by 200*dt); from identity,
\* K_RIGHT held for 0.5 s gives angle = 1.0 and M = R.
C7_FrameEffect ==
    [][ /\ (pc = "keys" /\ keys' # {} /\ keys' \subseteq {"K_LEFT", "K_RIGHT"}) =>
              /\ <<scale_factor, shear_k, tx, ty>>' = <<scale_factor, shear_k, tx, ty>>
              /\ keys' = {"K_LEFT"} => angle' = angle - 2 * dt
              /\ keys' = {"K_RIGHT"} => angle' = angle + 2 * dt
        /\ (pc = "keys" /\ keys' # {} /\ keys' \subseteq {"K_UP", "K_DOWN"}) =>
              <<angle, shear_k, tx, ty>>' = <<angle, shear_k, tx, ty>>
        /\ (pc = "keys" /\ keys' # {} /\ keys' \subseteq {"K_q", "K_e"}) =>
              /\ <<scale_factor, angle, tx, ty>>' = <<scale_factor, angle, tx, ty>>
              /\ keys' = {"K_q"} => shear_k' = shear_k - dt
              /\ keys' = {"K_e"} => shear_k' = shear_k + dt
        /\ (pc = "keys" /\ keys' # {} /\ keys' \subseteq {"K_w", "K_s"}) =>
              /\ <<scale_factor, angle, shear_k, tx>>' = <<scale_factor, angle, shear_k, tx>>
              /\ keys' = {"K_w"} => ty' = ty - 200 * dt
              /\ keys' = {"K_s"} => ty' = ty + 200 * dt
        /\ (pc = "keys" /\ keys' # {} /\ keys' \subseteq {"K_a", "K_d"}) =>
              /\ <<scale_factor, angle, shear_k, ty>>' = <<scale_factor, angle, shear_k, ty>>
              /\ keys' = {"K_a"} => tx' = tx - 200 * dt
              /\ keys' = {"K_d"} => tx' = tx + 200 * dt
        /\ C7_Scenario'
      ]_vars

\* K_RIGHT has been held alone for 0.5 s from identity.
C7_Witness ==
    /\ AfterFrame
    /\ heldKeys = {"K_RIGHT"}
    /\ held = Den \div 2
    /\ angle = Den

\* ------------------------------------------------------------------------
\* C8
\* ------------------------------------------------------------------------

\* C8: a frame in which both keys of an opposing pair are held and K_r is not
\* leaves the pair's parameter as it was before the frame.
C8_OpposingKeysCancel ==
    [][ (pc = "keys" /\ "K_r" \notin keys') =>
          /\ {"K_LEFT", "K_RIGHT"} \subseteq keys' => angle' = angle
          /\ {"K_UP", "K_DOWN"} \subseteq keys' => scale_factor' = scale_factor
          /\ {"K_q", "K_e"} \subseteq keys' => shear_k' = shear_k
          /\ {"K_w", "K_s"} \subseteq keys' => ty' = ty
          /\ {"K_a", "K_d"} \subseteq keys' => tx' = tx
      ]_vars

\* K_UP and K_DOWN held for half a second with the scale at the floor.
C8_Witness ==
    /\ AfterFrame
    /\ keys = {"K_UP", "K_DOWN"}
    /\ dt > 0
    /\ scale_factor = Den \div 5

\* ------------------------------------------------------------------------
\* C9
\* ------------------------------------------------------------------------

\* C9: the matrices S, Sh, R, M and the transformed polygon a frame hands to
\* the draw calls are those of the state as it is after that frame's controls.
C9_PipelineSeesIntegratedState ==
    AfterFrame => Output = pipeline(cur)

\* A frame whose controls changed the scale: the S drawn shows the new scale.
C9_Witness ==
    /\ AfterFrame
    /\ keys = {"K_DOWN"}
    /\ dt > 0
    /\ scale_factor = Den - Den \div 4
    /\ S = << <<scale_factor, 0>>, <<0, scale_factor>> >>

\* ------------------------------------------------------------------------
\* C10
\* ------------------------------------------------------------------------

\* Once running is cleared it stays cleared; the frame of the tick that
\* observed the QUIT event or K_ESCAPE still runs and the loop exits right
\* after it; nothing happens after the exit.
C10_Safety ==
    [][ /\ ~running => ~running'
        /\ (pc = "keys" /\ (~running \/ "K_ESCAPE" \in keys')) =>
              (pc' = "done" /\ Output' = pipeline(cur'))
        /\ ~running' => pc' \in {"keys", "done"}
        /\ pc # "done"
      ]_vars

\* C10: once running is cleared (a QUIT event, or K_ESCAPE held) the tick runs
\* to its end, the loop then exits, no later tick occurs and the state is not
\* written again; and once running is cleared the program terminates.
C10_QuitEndsLoop ==
    /\ C10_Safety
    /\ (~running) ~> (pc = "done")

\* The program has exited after a QUIT event in a tick in which K_RIGHT was
\* held: the frame of that tick ran.
C10_Witness ==
    /\ pc = "done"
    /\ ~running
    /\ keys = {"K_RIGHT"}
    /\ dt > 0
    /\ angle # 0
    /\ Output = pipeline(cur)

====
